---------------------------- MODULE Spec2Model ----------------------------
(***************************************************************************)
(* State-machine model of the GALEX SNe Ia CSM analysis scripts:           *)
(*   detections.py     main          (detection flagging loop)             *)
(*   scrape_ned.py     main, get_sn, compress_duplicates (NED enrichment)  *)
(*   get_fits_info.py  compile_fits, import_fits (inventory compilation)   *)
(* Every script is its own process; the scripts share no in-process state, *)
(* so each has its own group of variables and its own specification.       *)
(***************************************************************************)
EXTENDS Integers, Sequences, FiniteSets, TLC

VARIABLES
    \* ---- detections.main ----
    det_pc,       \* "off" | "loop" | "written"
    det_i,        \* number of (supernova, band) pairs already examined
    lc,           \* the light curve examined last: [sn, band, found, rows]
    detections,   \* the list `detections`: rows [Name, Band, MaxSigma]
    det_out,      \* out/detections.csv: [exists, rows]
    examined      \* the iterations of the inner loop so far: [sn, band, found]

detVars == <<det_pc, det_i, lc, detections, det_out, examined>>

VARIABLES
    \* ---- scrape_ned.main ----
    fits_info,    \* out/fitsinfo.csv, the inventory (one row per image file)
    sn_info,      \* the DataFrame `sn_info` of main (line 39)
    disk,         \* NED_RESULTS_FILE on disk: [exists, rows]
    ned_pc,       \* "off" | "idle" | "loop" | "done" | "aborted" | "interrupted"
    prev,         \* the variable `prev` of the current run
    prompted,     \* whether the current run showed the prompt
    ned,          \* the DataFrame `ned`
    sne,          \* the work list `sne`
    blk,          \* the loop variable `b`: offset of the current block
    block,        \* rows of the current block gathered so far
    loaded,       \* history: the rows read from disk when the run started
    disk0,        \* history: the results file as it was when the run started
    prevGot,      \* history: supernovae get_sn returned for in the run before
    prevEnd       \* history: how the run before ended (its last ned_pc)

nedVars == <<fits_info, sn_info, disk, ned_pc, prev, prompted, ned, sne, blk, block,
             loaded, disk0, prevGot, prevEnd>>

VARIABLES
    \* ---- import_fits on one file ----
    fits_pc,      \* "off" | "ready" | "imported"
    fin,          \* the file: [id, kind, disc, tmeans]
    fout          \* what import_fits returned

fitsVars == <<fits_pc, fin, fout>>

VARIABLES
    \* ---- compile_fits ----
    pool_pc,      \* "off" | "running" | "assembled" | "no_rows" | "aborted"
    fits_files,   \* the argument fits_files: the files in input order
    nextTask,     \* the next chunk of the task queue
    workers,      \* per worker process: its chunk and the results so far
    arrived,      \* chunk results sent back to the parent, by chunk number,
                  \* each with its place (seq) in the order of arrival
    yielded,      \* chunks the imap iterator has handed to list(...)
    stats,        \* the list `stats` as gathered so far
    inventory     \* the rows of the DataFrame compile_fits returns

poolVars == <<pool_pc, fits_files, nextTask, workers, arrived, yielded, stats,
              inventory>>

VARIABLES
    \* ---- the final sample and its compression ----
    smp_pc,        \* "off" | "ready" | "adhoc" | "sampled" | "compressed"
    smp_fresh,     \* the inventory was compiled in this run, not read from
                   \* the cache file
    smp_fits_info, \* fits_info: the inventory
    adhoc_sample,  \* final_sample of fitsinfo.main
    final_sample,  \* final_sample of get_fits_info.main
    smp_sn_info    \* sn_info of get_fits_info.main

sampleVars == <<smp_pc, smp_fresh, smp_fits_info, adhoc_sample, final_sample,
                smp_sn_info>>

VARIABLES
    \* ---- query_loc ----
    q_pc,         \* "off" | "called" | "returned" | "raised"
    q_results,    \* ned_results: the table the region query returned
    q_z,          \* the argument z
    q_table       \* ned_table: the row query_loc returns

queryVars == <<q_pc, q_results, q_z, q_table>>

VARIABLES
    \* ---- the network requests of a run of scrape_ned ----
    en_pc,        \* "off" | "get_sn" | "loc_sleep" | "overview" |
                  \* "overview_sleep" | "record" | "checkpoint" | "end", or
                  \* ended by an exception: "query_failed" |
                  \* "fetch_failed" | "record_failed"
    en_n,         \* len(sne)
    en_i,         \* the supernova get_sn is called for: 1 .. en_n
    en_page,      \* what scrape_overview found
    en_block,     \* rows of the block in progress
    en_file,      \* rows of the results file
    en_last,      \* history: "none" | "request" | "pause"
    en_gap,       \* history: a request followed a request with no pause
    en_radius     \* history: radius of the last region query, 0 before it

enrichVars == <<en_pc, en_n, en_i, en_page, en_block, en_file, en_last, en_gap,
                en_radius>>

VARIABLES
    \* ---- the filter of to_latex ----
    tl_pc,        \* "off" | "called" | "filtered" | "raised"
    tl_ned,       \* the argument ned
    tl_out        \* ned after line 327: the rows kept, with their notes

latexVars == <<tl_pc, tl_ned, tl_out>>

VARIABLES
    \* ---- sn2fits and fits2sn ----
    cd_pc,        \* "off" | "named" | "encoded" | "decoded"
    cd_osc,       \* the names of the reference catalog
    cd_sn,        \* the catalog entry whose file is named
    cd_band,
    cd_file,      \* sn2fits(cd_sn, cd_band)
    cd_out        \* fits2sn(cd_file, cd_osc)

codecVars == <<cd_pc, cd_osc, cd_sn, cd_band, cd_file, cd_out>>

VARIABLES
    \* ---- get_fits_info.main ----
    mn_pc,        \* "off" | "start" | "inventory" | "sampled" | "summarised" | "plotted" | "done" | "raised"
    mn_overwrite, \* args.overwrite
    mn_dir,       \* the image files under the data directory
    mn_cache0,    \* the cache file when main starts
    mn_cache,     \* the cache file
    mn_opened,    \* the image files opened, by their place in mn_dir
    mn_fits_info, \* fits_info
    mn_out,       \* the final sample and the summary written, and the files written
    mn_stats      \* the statistics report

mainVars == <<mn_pc, mn_overwrite, mn_dir, mn_cache0, mn_cache, mn_opened,
              mn_fits_info, mn_out, mn_stats>>

vars == <<detVars, nedVars, fitsVars, poolVars, sampleVars, queryVars, enrichVars,
          latexVars, codecVars, mainVars>>

-----------------------------------------------------------------------------
(* Generic helpers *)

Range(s) == {s[i] : i \in DOMAIN s}

RECURSIVE SelectSeqIdx(_, _, _)
\* The subsequence of s whose positions lie in the set keep, order preserved.
SelectSeqIdx(s, keep, i) ==
    IF i > Len(s) THEN <<>>
    ELSE (IF i \in keep THEN <<s[i]>> ELSE <<>>) \o SelectSeqIdx(s, keep, i + 1)

Min2(a, b) == IF a < b THEN a ELSE b

\* All sequences over S with length in lo..hi
SeqsUpTo(S, lo, hi) == UNION {[1..n -> S] : n \in lo..hi}

-----------------------------------------------------------------------------
(***************************************************************************)
(* detections.py                                                           *)
(***************************************************************************)

\* Longest light curve explored
MaxEpochs == 3

\* sn_info.index: the supernovae of ref/sn_info.csv, in file order
Catalog == <<"SN2005a", "SN2007b">>

\* bands = ['FUV', 'NUV']
Bands == <<"FUV", "NUV">>

\* One epoch of a light curve: flux_hostsub and flux_hostsub_err.  The
\* values give the ratios 3, 3.5, 5, 5.5 and 0/0 (NaN).
EpochValues ==
    { [flux |-> 3,  err |-> 1], [flux |-> 7,  err |-> 2],
      [flux |-> 5,  err |-> 1], [flux |-> 11, err |-> 2],
      [flux |-> 0,  err |-> 0] }

\* What full_import can return: a table of epochs (FileNotFoundError is
\* modelled by the action LcMissing)
LightCurves == SeqsUpTo(EpochValues, 0, MaxEpochs)

\* lc['sigma_above'] = lc['flux_hostsub'] / lc['flux_hostsub_err'] is a float
\* division; the ratio is kept as the pair and compared exactly.
\* IsNaN: 0/0.  x/0 with x > 0 is +inf, with x < 0 is -inf.
SigmaIsNaN(e) == e.err = 0 /\ e.flux = 0

\* Variant of SigmaGt with >= in place of >
SigmaGtMut(e, k) ==
    IF e.err > 0 THEN e.flux >= k * e.err
    ELSE IF e.err = 0 THEN e.flux > 0
    ELSE e.flux <= k * e.err

\* sigma_above > k, for an integer k (NaN compares False)
SigmaGt(e, k) ==
    IF e.err > 0 THEN e.flux > k * e.err
    ELSE IF e.err = 0 THEN e.flux > 0
    ELSE e.flux < k * e.err

\* a.sigma < b.sigma for two non-NaN epochs with err > 0
SigmaLess(a, b) == a.flux * b.err < b.flux * a.err

\* lc[lc['sigma_above'] > k]: boolean-mask row selection
Above(rows, k) == SelectSeq(rows, LAMBDA e : SigmaGt(e, k))

\* if len(lc[lc['sigma_above'] > 3].index) >= 3 or
\*    len(lc[lc['sigma_above'] > 5].index) >= 1
IsDetection(rows) == Len(Above(rows, 3)) >= 3 \/ Len(Above(rows, 5)) >= 1

\* np.max(lc['sigma_above']): Series.max skips NaN.  Only evaluated for a
\* flagged light curve, which has a non-NaN epoch.
MaxSigma(rows) ==
    LET vals == {rows[i] : i \in {j \in DOMAIN rows : ~SigmaIsNaN(rows[j])}}
    IN  CHOOSE m \in vals : \A v \in vals : ~SigmaLess(m, v)

NumPairs == Len(Catalog) * Len(Bands)

\* for sn in sn_info.index: for band in bands:
PairSn(p) == Catalog[(p \div Len(Bands)) + 1]
PairBand(p) == Bands[(p % Len(Bands)) + 1]

NoLc == [sn |-> "", band |-> "", found |-> FALSE, rows |-> <<>>]

DetInit ==
    /\ det_pc = "loop"
    /\ det_i = 0
    /\ lc = NoLc
    /\ detections = <<>>
    /\ det_out = [exists |-> FALSE, rows |-> <<>>]
    /\ examined = <<>>

DetOff ==
    /\ det_pc = "off"
    /\ det_i = 0
    /\ lc = NoLc
    /\ detections = <<>>
    /\ det_out = [exists |-> FALSE, rows |-> <<>>]
    /\ examined = <<>>

\* Variant of Continue that leaves the other band of the supernova out
ContinueNextSn(i) == ((i \div Len(Bands)) + 1) * Len(Bands)

\* except FileNotFoundError: continue -- the next iteration of `for band`
Continue(i) == i + 1

\* One iteration of the inner loop whose full_import raises FileNotFoundError
LcMissing ==
    /\ det_pc = "loop"
    /\ det_i < NumPairs
    /\ lc' = [sn |-> PairSn(det_i), band |-> PairBand(det_i),
              found |-> FALSE, rows |-> <<>>]
    /\ examined' = Append(examined, [sn |-> PairSn(det_i), band |-> PairBand(det_i),
                                     found |-> FALSE])
    /\ det_i' = Continue(det_i)
    /\ UNCHANGED <<det_pc, detections, det_out>>

\* One iteration of the inner loop whose light curve loads
LcExamine ==
    /\ det_pc = "loop"
    /\ det_i < NumPairs
    /\ \E rows \in LightCurves :
         /\ lc' = [sn |-> PairSn(det_i), band |-> PairBand(det_i),
                   found |-> TRUE, rows |-> rows]
         /\ detections' =
              IF IsDetection(rows)
              THEN Append(detections, [Name |-> PairSn(det_i),
                                       Band |-> PairBand(det_i),
                                       MaxSigma |-> MaxSigma(rows)])
              ELSE detections
    /\ examined' = Append(examined, [sn |-> PairSn(det_i), band |-> PairBand(det_i),
                                     found |-> TRUE])
    /\ det_i' = det_i + 1
    /\ UNCHANGED <<det_pc, det_out>>

\* detections = pd.DataFrame(...); utils.output_csv(detections, ...)
WriteDetections ==
    /\ det_pc = "loop"
    /\ det_i = NumPairs
    /\ det_out' = [exists |-> TRUE, rows |-> detections]
    /\ det_pc' = "written"
    /\ UNCHANGED <<det_i, lc, detections, examined>>

DetNext ==
    \/ LcMissing /\ UNCHANGED <<nedVars, fitsVars, poolVars, sampleVars, queryVars, enrichVars, latexVars, codecVars, mainVars>>
    \/ LcExamine /\ UNCHANGED <<nedVars, fitsVars, poolVars, sampleVars, queryVars, enrichVars, latexVars, codecVars, mainVars>>
    \/ WriteDetections /\ UNCHANGED <<nedVars, fitsVars, poolVars, sampleVars, queryVars, enrichVars, latexVars, codecVars, mainVars>>

-----------------------------------------------------------------------------
(***************************************************************************)
(* scrape_ned.py                                                           *)
(* Supernova names are identifiers 1, 2, ...; sky coordinates are numbers  *)
(* standing for the R.A./Dec. strings.                                     *)
(***************************************************************************)

BLOCK_SIZE == 10

\* Largest number of supernovae in the inventory
MaxSN == 12

\* What the operator may type at the prompt; anything but 'o' and 'c' keeps
Answers == {"o", "c", "k", ""}

\* One inventory row (a FITS file of one supernova in one band)
InvRow(name, band, ra) ==
    [Name |-> name, Disc |-> name, Band |-> band, RA |-> ra, Dec |-> name,
     Total |-> IF band = "FUV" THEN 2 ELSE 3,
     Pre   |-> 1,
     Post  |-> IF band = "FUV" THEN 1 ELSE 2,
     First |-> IF band = "FUV" THEN 4 ELSE 10,
     Last  |-> IF band = "FUV" THEN 9 ELSE 20,
     Next  |-> IF band = "FUV" THEN 6 ELSE 5,
     File  |-> <<name, band>>]

RECURSIVE InvRows(_, _, _, _)
\* The inventory of supernovae i..n, sorted by (Name, Band) as
\* fitsinfo.get_final_sample leaves it.  Supernova d has two band rows whose
\* R.A. strings differ, supernova s two band rows with equal coordinates,
\* every other supernova one NUV row.
InvRows(i, n, d, s) ==
    IF i > n THEN <<>>
    ELSE (IF i = d THEN <<InvRow(i, "FUV", 10 * i), InvRow(i, "NUV", 10 * i + 1)>>
          ELSE IF i = s THEN <<InvRow(i, "FUV", 10 * i), InvRow(i, "NUV", 10 * i)>>
          ELSE <<InvRow(i, "NUV", 10 * i)>>)
         \o InvRows(i + 1, n, d, s)

Inventories ==
    { InvRows(1, n, d, s) : n \in 1..MaxSN, d \in 0..MaxSN, s \in {0, 1} }

RECURSIVE SumOf(_, _, _)
\* Sum of field values f[j] over the index set G
SumOf(f, G, acc) ==
    IF G = {} THEN acc
    ELSE LET j == CHOOSE x \in G : TRUE IN SumOf(f, G \ {j}, acc + f[j])

MaxOf(S) == CHOOSE m \in S : \A x \in S : x <= m
MinOf(S) == CHOOSE m \in S : \A x \in S : m <= x

\* fits_info.groupby(['R.A.', 'Dec.']): the rows in the group of row r
GroupOfRow(fi, r) ==
    {j \in DOMAIN fi : fi[j].RA = fi[r].RA /\ fi[j].Dec = fi[r].Dec}

\* The six transform() assignments and the drop of 'Band' and 'File': every
\* row keeps its index (Name) and gets its group's aggregates
Transformed(fi) ==
    [r \in DOMAIN fi |->
        LET G == GroupOfRow(fi, r) IN
        [Name |-> fi[r].Name,
         cols |-> [Disc  |-> fi[r].Disc, RA |-> fi[r].RA, Dec |-> fi[r].Dec,
                   Total |-> SumOf([j \in G |-> fi[j].Total], G, 0),
                   Pre   |-> SumOf([j \in G |-> fi[j].Pre], G, 0),
                   Post  |-> SumOf([j \in G |-> fi[j].Post], G, 0),
                   First |-> MaxOf({fi[j].First : j \in G}),
                   Last  |-> MaxOf({fi[j].Last : j \in G}),
                   Next  |-> MinOf({fi[j].Next : j \in G})]]]

\* DataFrame.drop_duplicates(): compares the columns, not the index, and
\* keeps the first of equal rows
DropDuplicates(t) ==
    SelectSeqIdx(t, {r \in DOMAIN t : \A q \in 1..(r - 1) : t[q].cols # t[r].cols}, 1)

\* scrape_ned.compress_duplicates
compress_duplicates(fi) == DropDuplicates(Transformed(fi))

\* DataFrame.index as a list
IndexOf(t) == [r \in DOMAIN t |-> t[r].Name]

\* ned.index of the results table
NedIndex(rows) == {rows[r].name : r \in DOMAIN rows}

\* fits_info.loc[sn, col]: the rows labelled sn; a scalar when there is one
\* such row, a Series when the label is repeated
LocRows(t, sn) == SelectSeq(t, LAMBDA row : row.Name = sn)

\* ned at the start of the run (lines 47-57)
StartTable(p, file) == IF p = "o" THEN <<>> ELSE file.rows

\* Variant of WorkList in which continue mode queries the whole sample again
WorkListMut(p, info, table) ==
    IF p = "o" \/ p = "c" THEN IndexOf(info)
    ELSE <<>>

\* sne at the start of the run (lines 47-57)
WorkList(p, info, table) ==
    IF p = "o" THEN IndexOf(info)
    ELSE IF p = "c"
         THEN IndexOf(SelectSeq(info, LAMBDA row : row.Name \notin NedIndex(table)))
    ELSE <<>>

\* Variant of BlockSample that takes one name fewer per block
BlockSampleMut(list, b) == SubSeq(list, b + 1, Min2(b + BLOCK_SIZE - 1, Len(list)))

\* sample = sne[b:min(b+BLOCK_SIZE, len(sne))]
BlockSample(list, b) == SubSeq(list, b + 1, Min2(b + BLOCK_SIZE, Len(list)))

\* utils.output_csv(table, path): the file at path holds the table
output_csv(table) == [exists |-> TRUE, rows |-> table]

\* Variant of ConcatBlock that keeps the new block only
ConcatBlockMut(table, rows) == rows

\* ned = pd.concat([ned, block])
ConcatBlock(table, rows) == table \o rows

\* Variant of GetSnCanReturn in which get_sn can return for any name
GetSnCanReturnMut(info, sn) == TRUE

\* Whether get_sn(sn, ...) can return.  With a repeated index label
\* fits_info.loc[sn, 'R.A.'] is a Series, and the cell assignment
\* sn_info.loc[0, 'galex_ra'] = ra raises ValueError (Incompatible indexer
\* with Series), as does the offset assignment before it.
GetSnCanReturn(info, sn) == Len(LocRows(info, sn)) = 1

\* The row get_sn returns: the scraped fields (not modelled: no property
\* reads them) and name, host, galex_ra, galex_dec
GetSnRow(info, sn) ==
    [name |-> sn, host |-> <<"host", sn>>,
     galex_ra |-> LocRows(info, sn)[1].cols.RA,
     galex_dec |-> LocRows(info, sn)[1].cols.Dec]

NoFile == [exists |-> FALSE, rows |-> <<>>]

NedInit ==
    /\ fits_info \in Inventories
    /\ sn_info = <<>>
    /\ disk = NoFile
    /\ ned_pc = "idle"
    /\ prev = "o"
    /\ prompted = FALSE
    /\ ned = <<>>
    /\ sne = <<>>
    /\ blk = 0
    /\ block = <<>>
    /\ loaded = <<>>
    /\ disk0 = NoFile
    /\ prevGot = {}
    /\ prevEnd = "idle"

NedOff ==
    /\ fits_info = <<>>
    /\ sn_info = <<>>
    /\ disk = NoFile
    /\ ned_pc = "off"
    /\ prev = "o"
    /\ prompted = FALSE
    /\ ned = <<>>
    /\ sne = <<>>
    /\ blk = 0
    /\ block = <<>>
    /\ loaded = <<>>
    /\ disk0 = NoFile
    /\ prevGot = {}
    /\ prevEnd = "idle"

\* The supernovae get_sn has returned for in the current run
Processed == SubSeq(sne, 1, Min2(blk + Len(block), Len(sne)))

\* main, lines 38-57: a new process is started
NedStart ==
    /\ ned_pc \in {"idle", "done", "aborted", "interrupted"}
    /\ sn_info' = compress_duplicates(fits_info)
    /\ \E answer \in Answers :
        LET p == IF disk.exists THEN answer ELSE "o"
        IN  /\ prev' = p
            /\ prompted' = disk.exists
            /\ ned' = StartTable(p, disk)
            /\ sne' = WorkList(p, sn_info', StartTable(p, disk))
    /\ blk' = 0
    /\ block' = <<>>
    /\ loaded' = ned'
    /\ disk0' = disk
    /\ prevGot' = Range(Processed)
    /\ prevEnd' = ned_pc
    /\ ned_pc' = "loop"
    /\ UNCHANGED <<fits_info, disk>>

\* One get_sn call of the list comprehension of line 62 that returns
GetSnReturns ==
    /\ ned_pc = "loop"
    /\ blk < Len(sne)
    /\ Len(block) < Len(BlockSample(sne, blk))
    /\ LET sn == BlockSample(sne, blk)[Len(block) + 1]
       IN  /\ GetSnCanReturn(sn_info, sn)
           /\ block' = Append(block, GetSnRow(sn_info, sn))
    /\ UNCHANGED <<fits_info, sn_info, disk, ned_pc, prev, prompted, ned, sne, blk,
                   loaded, disk0, prevGot, prevEnd>>

\* One get_sn call that raises (the query raises or finds no candidate, a
\* cell assignment fails): nothing catches it and the process ends
GetSnRaises ==
    /\ ned_pc = "loop"
    /\ blk < Len(sne)
    /\ Len(block) < Len(BlockSample(sne, blk))
    /\ ned_pc' = "aborted"
    /\ UNCHANGED <<fits_info, sn_info, disk, prev, prompted, ned, sne, blk, block,
                   loaded, disk0, prevGot, prevEnd>>

\* Lines 63-64, when the list comprehension of the block is complete
FinishBlock ==
    /\ ned_pc = "loop"
    /\ blk < Len(sne)
    /\ Len(block) = Len(BlockSample(sne, blk))
    /\ ned' = ConcatBlock(ned, block)
    /\ disk' = output_csv(ned')
    /\ blk' = blk + BLOCK_SIZE
    /\ block' = <<>>
    /\ UNCHANGED <<fits_info, sn_info, ned_pc, prev, prompted, sne, loaded, disk0,
                   prevGot, prevEnd>>

\* The loop over blocks is exhausted: to_latex(ned, sn_info) and the end of
\* main, which write other files than the results file
EndLoop ==
    /\ ned_pc = "loop"
    /\ blk >= Len(sne)
    /\ ned_pc' = "done"
    /\ UNCHANGED <<fits_info, sn_info, disk, prev, prompted, ned, sne, blk, block,
                   loaded, disk0, prevGot, prevEnd>>

\* The operator (or the machine) stops the process between two steps
Interrupt ==
    /\ ned_pc = "loop"
    /\ ned_pc' = "interrupted"
    /\ UNCHANGED <<fits_info, sn_info, disk, prev, prompted, ned, sne, blk, block,
                   loaded, disk0, prevGot, prevEnd>>

NedNext ==
    \/ NedStart /\ UNCHANGED <<detVars, fitsVars, poolVars, sampleVars, queryVars, enrichVars, latexVars, codecVars, mainVars>>
    \/ GetSnReturns /\ UNCHANGED <<detVars, fitsVars, poolVars, sampleVars, queryVars, enrichVars, latexVars, codecVars, mainVars>>
    \/ GetSnRaises /\ UNCHANGED <<detVars, fitsVars, poolVars, sampleVars, queryVars, enrichVars, latexVars, codecVars, mainVars>>
    \/ FinishBlock /\ UNCHANGED <<detVars, fitsVars, poolVars, sampleVars, queryVars, enrichVars, latexVars, codecVars, mainVars>>
    \/ EndLoop /\ UNCHANGED <<detVars, fitsVars, poolVars, sampleVars, queryVars, enrichVars, latexVars, codecVars, mainVars>>
    \/ Interrupt /\ UNCHANGED <<detVars, fitsVars, poolVars, sampleVars, queryVars, enrichVars, latexVars, codecVars, mainVars>>
-----------------------------------------------------------------------------
(***************************************************************************)
(* get_fits_info.py / fitsinfo.py: import_fits                             *)
(* Times are Modified Julian Dates counted in half days, so that the       *)
(* truncation int() and the rounding np.round() of a day count are visible.*)
(***************************************************************************)

\* int(x) of a day count given in half days: truncation toward zero
IntDays(h) == IF h >= 0 THEN h \div 2 ELSE -((-h) \div 2)

\* int(np.round(x)) of a non-negative day count given in half days: np.round
\* rounds a half to the even neighbour
RoundDays(h) ==
    LET q == h \div 2 IN
    IF h % 2 = 0 THEN q ELSE IF q % 2 = 0 THEN q ELSE q + 1

NaN == [nan |-> TRUE, val |-> 0]
Num(v) == [nan |-> FALSE, val |-> v]

\* What the try block of import_fits does with a file (lines 89-95):
\*   "raise" - fits.open cannot open the file: OSError, which is no KeyError
\*   "none"  - a header key is missing, or the supernova is not in the
\*             reference catalog: KeyError, caught, return None
\*   "row"   - the file is read and its supernova found
TryOutcome(kind) ==
    IF kind = "unopenable" THEN "raise"
    ELSE IF kind \in {"nokey", "nocat"} THEN "none"
    ELSE "row"

\* f.tmeans[f.tmeans < sn.disc_date] and f.tmeans[f.tmeans > sn.disc_date]
EpochsBefore(f) == SelectSeq(f.tmeans, LAMBDA t : t < f.disc)
EpochsAfter(f) == SelectSeq(f.tmeans, LAMBDA t : t > f.disc)

\* diffs = f.tmeans.mjd - sn.disc_date.mjd;
\* min_post = int(np.round(np.min(diffs[diffs >= 0]))) if post > 0 else nan
MinPost(f) ==
    IF Len(EpochsAfter(f)) > 0
    THEN Num(RoundDays(MinOf({f.tmeans[i] - f.disc :
                 i \in {j \in DOMAIN f.tmeans : f.tmeans[j] - f.disc >= 0}})))
    ELSE NaN

\* The list import_fits returns (lines 97-110); the columns no property
\* reads (discovery date, band, coordinates, host) are left out
ImportRow(f) ==
    [File  |-> f.id,
     Total |-> Len(f.tmeans),
     Pre   |-> Len(EpochsBefore(f)),
     Post  |-> Len(EpochsAfter(f)),
     First |-> IntDays(f.disc - f.tmeans[1]),
     Last  |-> IntDays(f.tmeans[Len(f.tmeans)] - f.disc),
     Next  |-> MinPost(f)]

NoneResult == [none |-> TRUE, row |-> <<>>]

\* import_fits(fits_file, osc) when it does not raise
import_fits(f) ==
    IF TryOutcome(f.kind) = "none" THEN NoneResult
    ELSE [none |-> FALSE, row |-> ImportRow(f)]

(***************************************************************************)
(* import_fits on its own, over all short epoch lists                      *)
(***************************************************************************)

\* Longest epoch list explored
MaxTmeans == 4

\* Discovery date: midnight of day 20
DiscDate == 40

\* Epoch times relative to discovery, in half days: -10 d, -1 d, 0, +0.5 d,
\* +5 d, +20 d
RelTimes == {-20, -2, 0, 1, 10, 40}

FitsInputs ==
    { [id |-> 1, kind |-> "ok", disc |-> DiscDate, tmeans |-> tm] :
        tm \in SeqsUpTo({DiscDate + d : d \in RelTimes}, 1, MaxTmeans) }

FitsInit ==
    /\ fits_pc = "ready"
    /\ fin \in FitsInputs
    /\ fout = NoneResult

FitsOff ==
    /\ fits_pc = "off"
    /\ fin = [id |-> 0, kind |-> "ok", disc |-> 0, tmeans |-> <<>>]
    /\ fout = NoneResult

ImportOne ==
    /\ fits_pc = "ready"
    /\ fout' = import_fits(fin)
    /\ fits_pc' = "imported"
    /\ UNCHANGED fin

(***************************************************************************)
(* compile_fits: the worker pool                                           *)
(***************************************************************************)

\* pool.imap(..., chunksize=10)
CHUNKSIZE == 10

\* Largest number of image files
MaxFiles == 12

\* Processes of mp.Pool(): os.cpu_count() of the machine
NumWorkers == 2

PoolFile(i, kind) ==
    [id |-> i, kind |-> kind, disc |-> DiscDate, tmeans |-> <<DiscDate - 20, DiscDate + 10>>]

\* n files; file u cannot be opened, file k1 is of a supernova missing from
\* the catalog, file k2 lacks header keys (0: no such file)
FileList(n, k1, k2, u) ==
    [i \in 1..n |->
        PoolFile(i, IF i = u THEN "unopenable"
                    ELSE IF i = k1 THEN "nocat"
                    ELSE IF i = k2 THEN "nokey"
                    ELSE "ok")]

FileLists ==
    { FileList(t[1], t[2], t[3], t[4]) :
        t \in { x \in (1..MaxFiles) \X (0..MaxFiles) \X (0..MaxFiles) \X (0..MaxFiles) :
                  /\ x[2] <= x[1] /\ x[3] <= x[1] /\ x[4] <= x[1]
                  /\ x[3] = 0 \/ (x[2] # 0 /\ x[2] < x[3])
                  /\ x[4] = 0 \/ x[3] = 0
                  /\ x[4] = 0 \/ x[4] # x[2] } }

NumChunks == (Len(fits_files) + CHUNKSIZE - 1) \div CHUNKSIZE

\* Variant of ChunkFiles whose chunks lack their last file
ChunkFilesMut(c) ==
    SubSeq(fits_files, (c - 1) * CHUNKSIZE + 1, Min2(c * CHUNKSIZE - 1, Len(fits_files)))

\* Pool._get_tasks: chunk c (1, 2, ...) of the input, in input order
ChunkFiles(c) ==
    SubSeq(fits_files, (c - 1) * CHUNKSIZE + 1, Min2(c * CHUNKSIZE, Len(fits_files)))

IdleWorker == [chunk |-> 0, res |-> <<>>, failed |-> FALSE]

\* Variant of MayYield that hands out the chunks as they arrive (imap_unordered)
MayYieldMut(c) == TRUE

\* imap's iterator hands out the chunk results in task order: chunk c only
\* once every chunk before it has been handed out
MayYield(c) == \A e \in 1..(c - 1) : e \in yielded

\* stats = list(filter(None, stats))
FilterNone(items) == SelectSeq(items, LAMBDA it : ~it.none)

PoolInit ==
    /\ pool_pc = "running"
    /\ fits_files \in FileLists
    /\ nextTask = 1
    /\ workers = [w \in 1..NumWorkers |-> IdleWorker]
    /\ arrived = <<>>
    /\ yielded = {}
    /\ stats = <<>>
    /\ inventory = <<>>

PoolOff ==
    /\ pool_pc = "off"
    /\ fits_files = <<>>
    /\ nextTask = 1
    /\ workers = <<>>
    /\ arrived = <<>>
    /\ yielded = {}
    /\ stats = <<>>
    /\ inventory = <<>>

\* A free worker process takes the next chunk from the task queue
TakeTask(w) ==
    /\ pool_pc = "running"
    /\ workers[w].chunk = 0
    /\ nextTask <= NumChunks
    /\ workers' = [workers EXCEPT ![w] = [chunk |-> nextTask, res |-> <<>>, failed |-> FALSE]]
    /\ nextTask' = nextTask + 1
    /\ UNCHANGED <<pool_pc, fits_files, arrived, yielded, stats, inventory>>

\* The worker calls import_fits on the next file of its chunk.  An exception
\* of import_fits ends the chunk: the worker keeps it as the chunk's result.
ProcessFile(w) ==
    /\ pool_pc = "running"
    /\ workers[w].chunk # 0
    /\ ~workers[w].failed
    /\ Len(workers[w].res) < Len(ChunkFiles(workers[w].chunk))
    /\ LET f == ChunkFiles(workers[w].chunk)[Len(workers[w].res) + 1] IN
         workers' = [workers EXCEPT ![w] =
            IF TryOutcome(f.kind) = "raise"
            THEN [@ EXCEPT !.failed = TRUE]
            ELSE [@ EXCEPT !.res = Append(@, import_fits(f))]]
    /\ UNCHANGED <<pool_pc, fits_files, nextTask, arrived, yielded, stats, inventory>>

\* The worker sends the chunk's result (the list of results, or the
\* exception) back and is free again
SendResult(w) ==
    /\ pool_pc = "running"
    /\ workers[w].chunk # 0
    /\ workers[w].failed \/ Len(workers[w].res) = Len(ChunkFiles(workers[w].chunk))
    /\ arrived' = [c \in DOMAIN arrived \cup {workers[w].chunk} |->
                     IF c = workers[w].chunk
                     THEN [ok |-> ~workers[w].failed, items |-> workers[w].res,
                           seq |-> Cardinality(DOMAIN arrived) + 1]
                     ELSE arrived[c]]
    /\ workers' = [workers EXCEPT ![w] = IdleWorker]
    /\ UNCHANGED <<pool_pc, fits_files, nextTask, yielded, stats, inventory>>

\* list(...) receives the results of the next chunk from the iterator
YieldChunk ==
    /\ pool_pc = "running"
    /\ \E c \in DOMAIN arrived :
         /\ c \notin yielded
         /\ MayYield(c)
         /\ arrived[c].ok
         /\ stats' = stats \o arrived[c].items
         /\ yielded' = yielded \cup {c}
    /\ UNCHANGED <<pool_pc, fits_files, nextTask, workers, arrived, inventory>>

\* The iterator re-raises, in the parent, the exception a chunk ended with:
\* list(...) and compile_fits end with it, the pool is terminated
YieldRaises ==
    /\ pool_pc = "running"
    /\ \E c \in DOMAIN arrived :
         /\ c \notin yielded
         /\ MayYield(c)
         /\ ~arrived[c].ok
    /\ pool_pc' = "aborted"
    /\ UNCHANGED <<fits_files, nextTask, workers, arrived, yielded, stats, inventory>>

\* Lines 131-139, once every chunk has been received.  pd.DataFrame of an
\* empty array with 13 column names raises ValueError.
Assemble ==
    /\ pool_pc = "running"
    /\ yielded = 1..NumChunks
    /\ IF FilterNone(stats) = <<>>
       THEN pool_pc' = "no_rows" /\ UNCHANGED inventory
       ELSE /\ inventory' = [j \in DOMAIN FilterNone(stats) |-> FilterNone(stats)[j].row]
            /\ pool_pc' = "assembled"
    /\ UNCHANGED <<fits_files, nextTask, workers, arrived, yielded, stats>>

-----------------------------------------------------------------------------
(***************************************************************************)
(* fitsinfo.py and get_fits_info.py: the final sample and its compression  *)
(***************************************************************************)

\* Most rows of an inventory
MaxInvRows == 3

\* Supernova names in ascending order
SampleCatalog == <<"SN2005a", "SN2007b">>

RECURSIVE Digits(_)
\* str(n) of a natural number, as character codes
Digits(n) == IF n < 10 THEN <<48 + n>> ELSE Digits(n \div 10) \o <<48 + (n % 10)>>

\* The text np.array gives a number of a row that also holds text:
\* str(10) = '10', str(-3) = '-3', str(nan) = 'nan'
StrOf(c) ==
    IF c.nan THEN <<110, 97, 110>>
    ELSE IF c.n < 0 THEN <<45>> \o Digits(-c.n)
    ELSE Digits(c.n)

RECURSIVE LexLess(_, _)
\* a < b for Python strings
LexLess(a, b) ==
    IF b = <<>> THEN FALSE
    ELSE IF a = <<>> THEN TRUE
    ELSE IF Head(a) # Head(b) THEN Head(a) < Head(b)
    ELSE LexLess(Tail(a), Tail(b))

\* A cell of the columns First Epoch, Last Epoch, Next Epoch: the number n
\* (or NaN), held as text when txt
Cell(txt, n) == [txt |-> txt, nan |-> FALSE, n |-> n]
NaNCell(txt) == [txt |-> txt, nan |-> TRUE, n |-> 0]

\* a < b as pandas compares two cells of one column
CellLess(a, b) == IF a.txt THEN LexLess(StrOf(a), StrOf(b)) ELSE a.n < b.n

\* The cells an aggregation looks at: it skips NaN of a numeric column; in a
\* text column 'nan' is a string like any other
Counted(C) == {c \in C : c.txt \/ ~c.nan}

\* transform('max') and transform('min') of an offset column over one group
TransformMax(C) ==
    IF Counted(C) = {} THEN CHOOSE c \in C : TRUE
    ELSE CHOOSE m \in Counted(C) : \A x \in Counted(C) : ~CellLess(m, x)

TransformMin(C) ==
    IF Counted(C) = {} THEN CHOOSE c \in C : TRUE
    ELSE CHOOSE m \in Counted(C) : \A x \in Counted(C) : ~CellLess(x, m)

\* Epoch numbers of an image: Total, Pre, Post, First, Last, Next (0 in the
\* last place with no epoch after discovery: Next Epoch is NaN)
Profiles ==
    { <<5, 2, 3, 10, 40, 5>>,
      <<7, 3, 4, 3, 100, 12>>,
      <<2, 0, 2, -4, 9, 4>>,
      <<2, 1, 1, 7, 8, 8>>,
      <<1, 1, 0, 7, -7, 0>> }

\* A row of fits_info.  compile_fits builds the table from np.array(stats),
\* an array of strings, and converts the three count columns only (astype):
\* in a freshly compiled inventory (txt) the three offset columns hold text.
\* pd.read_csv of the cached inventory parses them as numbers.
SampleRow(name, band, p, txt) ==
    [Name |-> name, Band |-> band, Total |-> p[1], Pre |-> p[2], Post |-> p[3],
     First |-> Cell(txt, p[4]), Last |-> Cell(txt, p[5]),
     Next |-> IF p[3] > 0 THEN Cell(txt, p[6]) ELSE NaNCell(txt)]

\* Inventories of up to MaxInvRows images, one image per supernova and band
SampleInventories(txt) ==
    { t \in SeqsUpTo({SampleRow(nm, b, p, txt) :
                        nm \in Range(SampleCatalog), b \in Range(Bands), p \in Profiles},
                     1, MaxInvRows) :
        \A i \in DOMAIN t : \A j \in DOMAIN t :
            i # j => (t[i].Name # t[j].Name \/ t[i].Band # t[j].Band) }

RankIn(s, x) == CHOOSE i \in DOMAIN s : s[i] = x

\* (Name, Band) of row a sorts before that of row b
KeyLess(a, b) ==
    \/ RankIn(SampleCatalog, a.Name) < RankIn(SampleCatalog, b.Name)
    \/ /\ a.Name = b.Name
       /\ RankIn(Bands, a.Band) < RankIn(Bands, b.Band)

RECURSIVE InsertSorted(_, _)
InsertSorted(s, r) ==
    IF s = <<>> THEN <<r>>
    ELSE IF KeyLess(r, Head(s)) THEN <<r>> \o s
    ELSE <<Head(s)>> \o InsertSorted(Tail(s), r)

RECURSIVE SortValuesFrom(_, _, _)
SortValuesFrom(t, i, acc) ==
    IF i > Len(t) THEN acc ELSE SortValuesFrom(t, i + 1, InsertSorted(acc, t[i]))

\* Variant of sort_values that leaves the rows as they are
sort_values_unsorted(t) == t

\* DataFrame.sort_values(by=['Name', 'Band']): ascending, rows of equal key
\* in their earlier order
sort_values(t) == SortValuesFrom(t, 1, <<>>)

\* fitsinfo.get_post_obs: the rule post > 1 & pre == 0
get_post_obs(fi) == SelectSeq(fi, LAMBDA r : r.Post > 1 /\ r.Pre = 0)

\* Variant of get_pre_post_obs that does not look at the epochs before
\* discovery
get_pre_post_obs_post_only(fi) == SelectSeq(fi, LAMBDA r : r.Post > 0)

\* fitsinfo.get_pre_post_obs, and the same selection in
\* get_fits_info.get_final_sample: the rule post > 0 & pre > 0
get_pre_post_obs(fi) == SelectSeq(fi, LAMBDA r : r.Post > 0 /\ r.Pre > 0)

\* fitsinfo.get_final_sample
fitsinfo_get_final_sample(fi) == sort_values(get_pre_post_obs(fi))

\* get_fits_info.get_final_sample
get_final_sample(fi) == sort_values(get_pre_post_obs(fi))

\* fits_info.groupby(['Name']): the rows in the group of row r
NameGroup(fi, r) == {j \in DOMAIN fi : fi[j].Name = fi[r].Name}

\* Lines 171-180 of get_fits_info.compress_duplicates: a row per row of the
\* final sample, with the aggregates of its group
GroupAggregates(fi) ==
    [r \in DOMAIN fi |->
        LET G == NameGroup(fi, r) IN
        [name |-> fi[r].Name,
         epochs_total  |-> SumOf([j \in G |-> fi[j].Total], G, 0),
         epochs_pre    |-> SumOf([j \in G |-> fi[j].Pre], G, 0),
         epochs_post   |-> SumOf([j \in G |-> fi[j].Post], G, 0),
         delta_t_first |-> TransformMax({fi[j].First : j \in G}),
         delta_t_last  |-> TransformMax({fi[j].Last : j \in G}),
         delta_t_next  |-> TransformMin({fi[j].Next : j \in G})]]

\* Variant of DropIndexDuplicated that keeps every row
DropIndexDuplicatedKeepAll(t) == t

\* sn_info.loc[~sn_info.index.duplicated()]: the first row of every name
DropIndexDuplicated(t) ==
    SelectSeqIdx(t, {r \in DOMAIN t : \A q \in 1..(r - 1) : t[q].name # t[r].name}, 1)

\* get_fits_info.compress_duplicates
gfi_compress_duplicates(fi) == DropIndexDuplicated(GroupAggregates(fi))

SampleInit ==
    /\ smp_pc = "ready"
    /\ smp_fresh \in BOOLEAN
    /\ smp_fits_info \in SampleInventories(smp_fresh)
    /\ adhoc_sample = <<>>
    /\ final_sample = <<>>
    /\ smp_sn_info = <<>>

SampleOff ==
    /\ smp_pc = "off"
    /\ smp_fresh = FALSE
    /\ smp_fits_info = <<>>
    /\ adhoc_sample = <<>>
    /\ final_sample = <<>>
    /\ smp_sn_info = <<>>

\* fitsinfo.main, line 46 (its inventory is always freshly compiled)
AdhocFinalSample ==
    /\ smp_pc = "ready"
    /\ smp_fresh
    /\ adhoc_sample' = fitsinfo_get_final_sample(smp_fits_info)
    /\ smp_pc' = "adhoc"
    /\ UNCHANGED <<smp_fresh, smp_fits_info, final_sample, smp_sn_info>>

\* get_fits_info.main, line 64
GetFinalSample ==
    /\ smp_pc = "ready"
    /\ final_sample' = get_final_sample(smp_fits_info)
    /\ smp_pc' = "sampled"
    /\ UNCHANGED <<smp_fresh, smp_fits_info, adhoc_sample, smp_sn_info>>

\* get_fits_info.main, line 68
CompressDuplicates ==
    /\ smp_pc = "sampled"
    /\ smp_sn_info' = gfi_compress_duplicates(final_sample)
    /\ smp_pc' = "compressed"
    /\ UNCHANGED <<smp_fresh, smp_fits_info, adhoc_sample, final_sample>>

-----------------------------------------------------------------------------
(***************************************************************************)
(* scrape_ned.py: query_loc                                                *)
(* Redshifts are counted in thousandths.                                   *)
(***************************************************************************)

\* Most candidates a region query returns
MaxCand == 3

\* Redshifts the candidates report: 0.05, 0.115, 0.12, 0.20
CandRedshifts == {50, 115, 120, 200}

\* A row of the table Ned.query_region returns: its separation from the
\* target and its redshift, which is masked when NED has none
Candidate(sep, masked, zc) == [sep |-> sep, masked |-> masked, z |-> zc]

\* Tables of up to MaxCand rows, in the order NED returns them; separations
\* differ from row to row
QueryResults ==
    { t \in SeqsUpTo({Candidate(s, FALSE, zc) : s \in 1..MaxCand, zc \in CandRedshifts}
                        \cup {Candidate(s, TRUE, 0) : s \in 1..MaxCand},
                     0, MaxCand) :
        \A i \in DOMAIN t : \A j \in DOMAIN t : i # j => t[i].sep # t[j].sep }

\* The argument z: absent (None), NaN, or a number: 0, 0.11, 0.30
NoZ == [kind |-> "none", v |-> 0]
NaNZ == [kind |-> "nan", v |-> 0]
NumZ(v) == [kind |-> "num", v |-> v]
CatalogRedshifts == {NoZ, NaNZ, NumZ(0), NumZ(110), NumZ(300)}

RECURSIVE ArgSortFrom(_, _)
\* ned_results[np.argsort(ned_results['Separation'])]
ArgSortFrom(t, left) ==
    IF left = {} THEN <<>>
    ELSE LET i == CHOOSE k \in left : \A j \in left : t[k].sep <= t[j].sep IN
         <<t[i]>> \o ArgSortFrom(t, left \ {i})

ned_sorted(t) == ArgSortFrom(t, DOMAIN t)

\* ned_sorted[ned_sorted['Redshift'].mask != True]
z_sorted(t) == SelectSeq(ned_sorted(t), LAMBDA c : ~c.masked)

\* `if z:` - None and 0 are false, NaN and every other number are true
Truthy(z) == z.kind = "nan" \/ (z.kind = "num" /\ z.v # 0)

\* np.abs(object['Redshift'] - z) / z < 0.1, for z > 0 or NaN (a comparison
\* with NaN is false)
Similar(zc, z) ==
    /\ z.kind = "num"
    /\ z.v > 0
    /\ 10 * (IF zc >= z.v THEN zc - z.v ELSE z.v - zc) < z.v

\* Variant of SimilarIdx without the break: the last similar candidate
SimilarIdxLast(zs, z) ==
    LET S == {i \in DOMAIN zs : Similar(zs[i].z, z)} IN
    IF S = {} THEN 0 ELSE CHOOSE i \in S : \A j \in S : j <= i

\* The for loop of lines 157-160: the position in z_sorted at which it
\* breaks, 0 when it runs to the end
SimilarIdx(zs, z) ==
    LET S == {i \in DOMAIN zs : Similar(zs[i].z, z)} IN
    IF S = {} THEN 0 ELSE CHOOSE i \in S : \A j \in S : i <= j

\* query_loc, lines 151-164, for a table with at least one row
query_loc(t, z) ==
    IF Truthy(z) /\ SimilarIdx(z_sorted(t), z) # 0
    THEN z_sorted(t)[SimilarIdx(z_sorted(t), z)]
    ELSE ned_sorted(t)[1]

NoCandidate == Candidate(0, TRUE, 0)

QueryInit ==
    /\ q_pc = "called"
    /\ q_results \in QueryResults
    /\ q_z \in CatalogRedshifts
    /\ q_table = NoCandidate

QueryOff ==
    /\ q_pc = "off"
    /\ q_results = <<>>
    /\ q_z = NoZ
    /\ q_table = NoCandidate

\* The region query found objects: query_loc returns one of them
QueryLocReturns ==
    /\ q_pc = "called"
    /\ q_results # <<>>
    /\ q_table' = query_loc(q_results, q_z)
    /\ q_pc' = "returned"
    /\ UNCHANGED <<q_results, q_z>>

\* The region query found nothing: ned_sorted[0] raises IndexError
QueryLocRaises ==
    /\ q_pc = "called"
    /\ q_results = <<>>
    /\ q_pc' = "raised"
    /\ UNCHANGED <<q_results, q_z, q_table>>

-----------------------------------------------------------------------------
(***************************************************************************)
(* scrape_ned.py: the network requests of a run (get_sn, query_loc,        *)
(* scrape_overview, to_latex)                                              *)
(***************************************************************************)

\* Most supernovae in the work list of a run
MaxBatch == 3

\* QUERY_RADIUS = 5. # arcmin
QUERY_RADIUS == 5

\* def query_loc(ra, dec, radius=1., z=None, verb=0)
DefaultRadius == 1

\* The radius of the region query of get_sn: line 92 calls
\* query_loc(ra, dec, z=..., verb=verb) and passes no radius
GetSnRadius == DefaultRadius

\* What scrape_overview finds on the page of the object:
\*   "banner"   - an error message, or none of the fields: an empty frame
\*   "partial"  - some fields, no position
\*   "position" - a position, Hubble distance N/A
\*   "full"     - a position and a Hubble distance
PageKinds == {"banner", "partial", "position", "full"}

\* Lines 95-105 of get_sn after scrape_overview returned.  On an empty frame
\* the assignment sn_info.loc[0, 'sep'] = <scalar> raises ValueError (cannot
\* set a frame with no defined index and a scalar).  With a position and a
\* Hubble distance, physical_offset multiplies the scraped text h_dist by a
\* float and raises TypeError.
RecordCanBeBuilt(page) == page \in {"partial", "position"}

\* The row get_sn returns for the i-th supernova of the work list
EnrichRecord(i, page) ==
    [name |-> i, host |-> TRUE, galex_ra |-> TRUE, galex_dec |-> TRUE,
     sep |-> TRUE, offset |-> FALSE, page |-> page]

\* Variant of sleep that does not pause
sleep_skipped(last) == last

\* sleep(1): the last thing that happened on the network side is a pause
sleep(last) == "pause"

EnrichInit ==
    /\ en_pc = "get_sn"
    /\ en_n \in 0..MaxBatch
    /\ en_i = 1
    /\ en_page = "none"
    /\ en_block = <<>>
    /\ en_file = <<>>
    /\ en_last = "none"
    /\ en_gap = FALSE
    /\ en_radius = 0

EnrichOff ==
    /\ en_pc = "off"
    /\ en_n = 0
    /\ en_i = 1
    /\ en_page = "none"
    /\ en_block = <<>>
    /\ en_file = <<>>
    /\ en_last = "none"
    /\ en_gap = FALSE
    /\ en_radius = 0

\* A request goes out: two requests with no pause between them are noted
Requested ==
    /\ en_gap' = (en_gap \/ en_last = "request")
    /\ en_last' = "request"

\* Ned.query_region (line 147) returns a table with at least one row
LocQueryFound ==
    /\ en_pc = "get_sn"
    /\ en_i <= en_n
    /\ Requested
    /\ en_radius' = GetSnRadius
    /\ en_pc' = "loc_sleep"
    /\ UNCHANGED <<en_n, en_i, en_page, en_block, en_file>>

\* Ned.query_region raises, or returns no row and line 154 raises
\* IndexError: nothing catches it, main ends
LocQueryFails ==
    /\ en_pc = "get_sn"
    /\ en_i <= en_n
    /\ Requested
    /\ en_radius' = GetSnRadius
    /\ en_pc' = "query_failed"
    /\ UNCHANGED <<en_n, en_i, en_page, en_block, en_file>>

\* query_loc, line 161
LocSleep ==
    /\ en_pc = "loc_sleep"
    /\ en_last' = sleep(en_last)
    /\ en_pc' = "overview"
    /\ UNCHANGED <<en_n, en_i, en_page, en_block, en_file, en_gap, en_radius>>

\* requests.get (line 181) returns a page
OverviewFetched ==
    /\ en_pc = "overview"
    /\ Requested
    /\ en_page' \in PageKinds
    /\ en_pc' = "overview_sleep"
    /\ UNCHANGED <<en_n, en_i, en_block, en_file, en_radius>>

\* requests.get raises
OverviewFails ==
    /\ en_pc = "overview"
    /\ Requested
    /\ en_pc' = "fetch_failed"
    /\ UNCHANGED <<en_n, en_i, en_page, en_block, en_file, en_radius>>

\* scrape_overview, line 235
OverviewSleep ==
    /\ en_pc = "overview_sleep"
    /\ en_last' = sleep(en_last)
    /\ en_pc' = "record"
    /\ UNCHANGED <<en_n, en_i, en_page, en_block, en_file, en_gap, en_radius>>

\* get_sn returns its row; the block is complete after BLOCK_SIZE rows or
\* at the end of the work list
RecordBuilt ==
    /\ en_pc = "record"
    /\ RecordCanBeBuilt(en_page)
    /\ en_block' = Append(en_block, EnrichRecord(en_i, en_page))
    /\ en_i' = en_i + 1
    /\ en_pc' = IF Len(en_block) + 1 = BLOCK_SIZE \/ en_i = en_n
                THEN "checkpoint" ELSE "get_sn"
    /\ UNCHANGED <<en_n, en_page, en_file, en_last, en_gap, en_radius>>

\* get_sn raises while it builds its row
RecordRaises ==
    /\ en_pc = "record"
    /\ ~RecordCanBeBuilt(en_page)
    /\ en_pc' = "record_failed"
    /\ UNCHANGED <<en_n, en_i, en_page, en_block, en_file, en_last, en_gap, en_radius>>

\* Lines 63-64
EnrichCheckpoint ==
    /\ en_pc = "checkpoint"
    /\ en_file' = en_file \o en_block
    /\ en_block' = <<>>
    /\ en_pc' = "get_sn"
    /\ UNCHANGED <<en_n, en_i, en_page, en_last, en_gap, en_radius>>

\* to_latex, lines 332-345: the bibliography is pulled from ADS with one
\* request; no sleep follows it
BibExport ==
    /\ en_pc = "get_sn"
    /\ en_i > en_n
    /\ Requested
    /\ en_pc' = "end"
    /\ UNCHANGED <<en_n, en_i, en_page, en_block, en_file, en_radius>>

\* to_latex with the previous bibliography kept, or ended by an exception
\* before line 345: no request
BibNotPulled ==
    /\ en_pc = "get_sn"
    /\ en_i > en_n
    /\ en_pc' = "end"
    /\ UNCHANGED <<en_n, en_i, en_page, en_block, en_file, en_last, en_gap, en_radius>>

-----------------------------------------------------------------------------
(***************************************************************************)
(* scrape_ned.py: the filter at the start of to_latex                      *)
(* Redshifts are counted in thousandths, offsets in kpc.                   *)
(***************************************************************************)

\* Most rows of the table to_latex is given
MaxLatexRows == 2

\* A cell of the column z: NaN, a float (a row loaded with pd.read_csv and
\* dtype={'z': float}), or the text scrape_overview took from the page with
\* get_text() (a row get_sn returned in this run)
ZCells ==
    { [kind |-> "nan", v |-> 0], [kind |-> "num", v |-> 300],
      [kind |-> "num", v |-> 500], [kind |-> "num", v |-> 600],
      [kind |-> "txt", v |-> 300] }

\* A cell of the column offset: NaN or a number of kpc
OffsetCells ==
    {[kind |-> "nan", v |-> 0]} \cup {[kind |-> "num", v |-> k] : k \in {20, 30, 35, 100, 120}}

LatexTables ==
    { [i \in DOMAIN f |-> [name |-> i, z |-> f[i][1], offset |-> f[i][2]]] :
        f \in SeqsUpTo(ZCells \X OffsetCells, 1, MaxLatexRows) }

\* ned['z'] < 0.5 can be evaluated: a str cell compared with a float raises
\* TypeError
ComparableZ(t) == \A i \in DOMAIN t : t[i].z.kind # "txt"

\* ned = ned[ned['z'] < 0.5]: a comparison with NaN is false
RedshiftCut(t) == SelectSeq(t, LAMBDA r : r.z.kind = "num" /\ r.z.v < 500)

\* ned = ned[ned['offset'] < 100]
OffsetCut(t) == SelectSeq(t, LAMBDA r : r.offset.kind = "num" /\ r.offset.v < 100)

\* Lines 307 and 327: z_flag is set where offset > 30, and the notes hold
\* the flag, or 'N/A' where there is none
Notes(r) ==
    IF r.offset.kind = "num" /\ r.offset.v > 30 THEN "large host offset" ELSE "N/A"

\* Lines 303-307 and 327 of to_latex
LatexRows(t) ==
    LET kept == OffsetCut(RedshiftCut(t)) IN
    [i \in DOMAIN kept |->
        [name |-> kept[i].name, z |-> kept[i].z, offset |-> kept[i].offset,
         notes |-> Notes(kept[i])]]

LatexInit ==
    /\ tl_pc = "called"
    /\ tl_ned \in LatexTables
    /\ tl_out = <<>>

LatexOff ==
    /\ tl_pc = "off"
    /\ tl_ned = <<>>
    /\ tl_out = <<>>

\* Lines 303-327 on a table whose redshifts are numbers or NaN
ToLatexFilters ==
    /\ tl_pc = "called"
    /\ ComparableZ(tl_ned)
    /\ tl_out' = LatexRows(tl_ned)
    /\ tl_pc' = "filtered"
    /\ UNCHANGED tl_ned

\* Line 303 on a table with a redshift held as text: TypeError
ToLatexRaises ==
    /\ tl_pc = "called"
    /\ ~ComparableZ(tl_ned)
    /\ tl_pc' = "raised"
    /\ UNCHANGED <<tl_ned, tl_out>>

-----------------------------------------------------------------------------
(***************************************************************************)
(* utils.py: sn2fits and fits2sn                                           *)
(* A string is the sequence of its characters; a band and the extension    *)
(* '.fits.gz' hold no '-', ':', ' ' or '_' and are one element each.       *)
(***************************************************************************)

\* Longest supernova name, in characters
MaxNameLen == 2

NameChars == {"a", ":", " ", "_", "-"}

SnNames == SeqsUpTo(NameChars, 1, MaxNameLen)

\* str.replace(old, new) for single characters
Replace(s, old, new) == [i \in DOMAIN s |-> IF s[i] = old THEN new ELSE s[i]]

\* sn.replace(':','_').replace(' ','_') + '-' + band + '.fits.gz'
sn2fits(sn, band) ==
    Replace(Replace(sn, ":", "_"), " ", "_") \o <<"-", band, ".fits.gz">>

\* '-'.join(name.split('-')[:-1]): what stands before the last '-', and
\* nothing if there is no '-'
BeforeLastHyphen(file) ==
    LET hyphens == {i \in DOMAIN file : file[i] = "-"} IN
    IF hyphens = {} THEN <<>>
    ELSE SubSeq(file, 1, (CHOOSE i \in hyphens : \A j \in hyphens : j <= i) - 1)

\* Variant of fits2sn that returns the colon form whether or not the catalog
\* holds it
fits2sn_colon_only(fits_file, osc) ==
    Replace(BeforeLastHyphen(fits_file), "_", ":")

\* fits2sn: the colon form if osc.loc finds it, the space form on KeyError
fits2sn(fits_file, osc) ==
    LET sn_name == Replace(BeforeLastHyphen(fits_file), "_", ":") IN
    IF sn_name \in osc THEN sn_name ELSE Replace(sn_name, ":", " ")

CodecInit ==
    /\ cd_pc = "named"
    /\ cd_sn \in SnNames
    /\ \E other \in SnNames : cd_osc = {cd_sn, other}
    /\ cd_band \in Range(Bands)
    /\ cd_file = <<>>
    /\ cd_out = <<>>

CodecOff ==
    /\ cd_pc = "off"
    /\ cd_osc = {}
    /\ cd_sn = <<>>
    /\ cd_band = "off"
    /\ cd_file = <<>>
    /\ cd_out = <<>>

\* The file of a catalog entry is named
Sn2Fits ==
    /\ cd_pc = "named"
    /\ cd_file' = sn2fits(cd_sn, cd_band)
    /\ cd_pc' = "encoded"
    /\ UNCHANGED <<cd_osc, cd_sn, cd_band, cd_out>>

\* The name is read back from the file's name
Fits2Sn ==
    /\ cd_pc = "encoded"
    /\ cd_out' = fits2sn(cd_file, cd_osc)
    /\ cd_pc' = "decoded"
    /\ UNCHANGED <<cd_osc, cd_sn, cd_band, cd_file>>

-----------------------------------------------------------------------------
(***************************************************************************)
(* get_fits_info.py: main                                                  *)
(***************************************************************************)

\* Most image files in the data directory
MaxImages == 2

\* The name of an image file of a supernova the catalog does not list
UnknownSn == "SN1999x"

MainProfiles == { <<5, 2, 3, 10, 40, 5>>, <<2, 0, 2, -4, 9, 4>> }

\* An image file: the supernova and band of its name, its epochs, and
\* whether fits.open can read it
ImageFiles ==
    [Name : Range(SampleCatalog) \cup {UnknownSn}, Band : Range(Bands),
     p : MainProfiles, readable : BOOLEAN]

\* get_fits_files: the files under the data directory, no two of one name
DataDirs ==
    { d \in SeqsUpTo(ImageFiles, 0, MaxImages) :
        \A i \in DOMAIN d : \A j \in DOMAIN d :
            i # j => (d[i].Name # d[j].Name \/ d[i].Band # d[j].Band) }

\* import_fits returns a row: the file opens and its supernova is listed
GivesRow(f) == f.readable /\ f.Name # UnknownSn

\* The rows compile_fits gathers from the files d, in the order of d; txt
\* for the table built from np.array(stats), numbers for the table as
\* pd.read_csv parses it from the csv file
InventoryOf(d, txt) ==
    LET kept == SelectSeq(d, GivesRow) IN
    [i \in DOMAIN kept |-> SampleRow(kept[i].Name, kept[i].Band, kept[i].p, txt)]

\* compile_fits returns: every file opens, and there is a row for
\* pd.DataFrame(np.array(stats), columns=...) to hold
CompileReturns(d) ==
    /\ \A i \in DOMAIN d : d[i].readable
    /\ InventoryOf(d, TRUE) # <<>>

\* The files the pool has opened when compile_fits ends: all of them, or
\* those up to the first that does not open (one chunk, taken in order)
OpenedBy(d) ==
    LET bad == {i \in DOMAIN d : ~d[i].readable} IN
    IF bad = {} THEN DOMAIN d
    ELSE 1..(CHOOSE i \in bad : \A j \in bad : i <= j)

NoCache == [exists |-> FALSE, rows |-> <<>>]

\* The cache an earlier run left: none, or the inventory of the files the
\* directory held then (the first k of today's)
CachesFor(d) ==
    {NoCache} \cup
    { [exists |-> TRUE, rows |-> InventoryOf(SubSeq(d, 1, k), FALSE)] :
        k \in {n \in 1..Len(d) : CompileReturns(SubSeq(d, 1, n))} }

NoStats == [written |-> FALSE, sne |-> 0, post_disc |-> 0, final_sne |-> 0,
            sample_size |-> 0, fuv |-> 0, nuv |-> 0]

\* write_quick_stats
QuickStats(fi, fs, si) ==
    [written     |-> TRUE,
     sne         |-> Cardinality({fi[i].Name : i \in DOMAIN fi}),
     post_disc   |-> Cardinality({fi[i].Name : i \in {j \in DOMAIN fi :
                                      fi[j].Post > 0 /\ fi[j].Pre = 0}}),
     final_sne   |-> Len(fs),
     sample_size |-> Len(si),
     fuv         |-> Len(SelectSeq(fs, LAMBDA r : r.Band = "FUV")),
     nuv         |-> Len(SelectSeq(fs, LAMBDA r : r.Band = "NUV"))]

MainInit ==
    /\ mn_pc = "start"
    /\ mn_overwrite \in BOOLEAN
    /\ mn_dir \in DataDirs
    /\ mn_cache0 \in CachesFor(mn_dir)
    /\ mn_cache = mn_cache0
    /\ mn_opened = {}
    /\ mn_fits_info = <<>>
    /\ mn_out = [sample |-> <<>>, sn_info |-> <<>>, files |-> {}]
    /\ mn_stats = NoStats

MainOff ==
    /\ mn_pc = "off"
    /\ mn_overwrite = FALSE
    /\ mn_dir = <<>>
    /\ mn_cache0 = NoCache
    /\ mn_cache = NoCache
    /\ mn_opened = {}
    /\ mn_fits_info = <<>>
    /\ mn_out = [sample |-> <<>>, sn_info |-> <<>>, files |-> {}]
    /\ mn_stats = NoStats

\* Line 54
Recompile == mn_overwrite \/ ~mn_cache.exists

\* Lines 55-59: the inventory is compiled and written to the cache file
MainCompile ==
    /\ mn_pc = "start"
    /\ Recompile
    /\ CompileReturns(mn_dir)
    /\ mn_opened' = OpenedBy(mn_dir)
    /\ mn_fits_info' = InventoryOf(mn_dir, TRUE)
    /\ mn_cache' = [exists |-> TRUE, rows |-> InventoryOf(mn_dir, FALSE)]
    /\ mn_pc' = "inventory"
    /\ UNCHANGED <<mn_overwrite, mn_dir, mn_cache0, mn_out, mn_stats>>

\* Lines 55-58: compile_fits raises, with the exception of a file that does
\* not open or the ValueError of a table without rows; main ends
MainCompileRaises ==
    /\ mn_pc = "start"
    /\ Recompile
    /\ ~CompileReturns(mn_dir)
    /\ mn_opened' = OpenedBy(mn_dir)
    /\ mn_pc' = "raised"
    /\ UNCHANGED <<mn_overwrite, mn_dir, mn_cache0, mn_cache, mn_fits_info, mn_out, mn_stats>>

\* Lines 60-61
MainReadCache ==
    /\ mn_pc = "start"
    /\ ~Recompile
    /\ mn_fits_info' = mn_cache.rows
    /\ mn_pc' = "inventory"
    /\ UNCHANGED <<mn_overwrite, mn_dir, mn_cache0, mn_cache, mn_opened, mn_out, mn_stats>>

\* Lines 64-65
MainFinalSample ==
    /\ mn_pc = "inventory"
    /\ mn_out' = [mn_out EXCEPT !.sample = get_final_sample(mn_fits_info),
                                !.files = @ \cup {"sample_fits_info.csv"}]
    /\ mn_pc' = "sampled"
    /\ UNCHANGED <<mn_overwrite, mn_dir, mn_cache0, mn_cache, mn_opened, mn_fits_info, mn_stats>>

\* Lines 68-69
MainSummary ==
    /\ mn_pc = "sampled"
    /\ mn_out' = [mn_out EXCEPT !.sn_info = gfi_compress_duplicates(mn_out.sample),
                                !.files = @ \cup {"sn_info.csv"}]
    /\ mn_pc' = "summarised"
    /\ UNCHANGED <<mn_overwrite, mn_dir, mn_cache0, mn_cache, mn_opened, mn_fits_info, mn_stats>>

\* Line 72
MainPlot ==
    /\ mn_pc = "summarised"
    /\ mn_out' = [mn_out EXCEPT !.files = @ \cup {"observations.png"}]
    /\ mn_pc' = "plotted"
    /\ UNCHANGED <<mn_overwrite, mn_dir, mn_cache0, mn_cache, mn_opened, mn_fits_info, mn_stats>>

\* Line 75
MainStats ==
    /\ mn_pc = "plotted"
    /\ mn_stats' = QuickStats(mn_fits_info, mn_out.sample, mn_out.sn_info)
    /\ mn_out' = [mn_out EXCEPT !.files = @ \cup {"quick_stats.txt"}]
    /\ mn_pc' = "done"
    /\ UNCHANGED <<mn_overwrite, mn_dir, mn_cache0, mn_cache, mn_opened, mn_fits_info>>

-----------------------------------------------------------------------------
(* Specifications *)

InitDet == DetInit /\ NedOff /\ FitsOff /\ PoolOff /\ SampleOff /\ QueryOff /\ EnrichOff /\ LatexOff /\ CodecOff /\ MainOff

SpecDet == InitDet /\ [][DetNext]_vars

InitNed == NedInit /\ DetOff /\ FitsOff /\ PoolOff /\ SampleOff /\ QueryOff /\ EnrichOff /\ LatexOff /\ CodecOff /\ MainOff

SpecNed == InitNed /\ [][NedNext]_vars

InitFits == FitsInit /\ DetOff /\ NedOff /\ PoolOff /\ SampleOff /\ QueryOff /\ EnrichOff /\ LatexOff /\ CodecOff /\ MainOff

FitsNext == ImportOne /\ UNCHANGED <<detVars, nedVars, poolVars, sampleVars, queryVars, enrichVars, latexVars, codecVars, mainVars>>

SpecFits == InitFits /\ [][FitsNext]_vars

InitPool == PoolInit /\ DetOff /\ NedOff /\ FitsOff /\ SampleOff /\ QueryOff /\ EnrichOff /\ LatexOff /\ CodecOff /\ MainOff

PoolNext ==
    \/ \E w \in 1..NumWorkers : TakeTask(w) /\ UNCHANGED <<detVars, nedVars, fitsVars, sampleVars, queryVars, enrichVars, latexVars, codecVars, mainVars>>
    \/ \E w \in 1..NumWorkers : ProcessFile(w) /\ UNCHANGED <<detVars, nedVars, fitsVars, sampleVars, queryVars, enrichVars, latexVars, codecVars, mainVars>>
    \/ \E w \in 1..NumWorkers : SendResult(w) /\ UNCHANGED <<detVars, nedVars, fitsVars, sampleVars, queryVars, enrichVars, latexVars, codecVars, mainVars>>
    \/ YieldChunk /\ UNCHANGED <<detVars, nedVars, fitsVars, sampleVars, queryVars, enrichVars, latexVars, codecVars, mainVars>>
    \/ YieldRaises /\ UNCHANGED <<detVars, nedVars, fitsVars, sampleVars, queryVars, enrichVars, latexVars, codecVars, mainVars>>
    \/ Assemble /\ UNCHANGED <<detVars, nedVars, fitsVars, sampleVars, queryVars, enrichVars, latexVars, codecVars, mainVars>>

SpecPool == InitPool /\ [][PoolNext]_vars

InitSample == SampleInit /\ DetOff /\ NedOff /\ FitsOff /\ PoolOff /\ QueryOff /\ EnrichOff /\ LatexOff /\ CodecOff /\ MainOff

SampleNext ==
    \/ AdhocFinalSample /\ UNCHANGED <<detVars, nedVars, fitsVars, poolVars, queryVars, enrichVars, latexVars, codecVars, mainVars>>
    \/ GetFinalSample /\ UNCHANGED <<detVars, nedVars, fitsVars, poolVars, queryVars, enrichVars, latexVars, codecVars, mainVars>>
    \/ CompressDuplicates /\ UNCHANGED <<detVars, nedVars, fitsVars, poolVars, queryVars, enrichVars, latexVars, codecVars, mainVars>>

SpecSample == InitSample /\ [][SampleNext]_vars

InitQuery == QueryInit /\ DetOff /\ NedOff /\ FitsOff /\ PoolOff /\ SampleOff /\ EnrichOff /\ LatexOff /\ CodecOff /\ MainOff

QueryNext ==
    \/ QueryLocReturns /\ UNCHANGED <<detVars, nedVars, fitsVars, poolVars, sampleVars, enrichVars, latexVars, codecVars, mainVars>>
    \/ QueryLocRaises /\ UNCHANGED <<detVars, nedVars, fitsVars, poolVars, sampleVars, enrichVars, latexVars, codecVars, mainVars>>

SpecQuery == InitQuery /\ [][QueryNext]_vars

InitEnrich ==
    EnrichInit /\ DetOff /\ NedOff /\ FitsOff /\ PoolOff /\ SampleOff /\ QueryOff /\ LatexOff
        /\ CodecOff /\ MainOff

EnrichNext ==
    \/ LocQueryFound /\ UNCHANGED <<detVars, nedVars, fitsVars, poolVars, sampleVars, queryVars, latexVars, codecVars, mainVars>>
    \/ LocQueryFails /\ UNCHANGED <<detVars, nedVars, fitsVars, poolVars, sampleVars, queryVars, latexVars, codecVars, mainVars>>
    \/ LocSleep /\ UNCHANGED <<detVars, nedVars, fitsVars, poolVars, sampleVars, queryVars, latexVars, codecVars, mainVars>>
    \/ OverviewFetched /\ UNCHANGED <<detVars, nedVars, fitsVars, poolVars, sampleVars, queryVars, latexVars, codecVars, mainVars>>
    \/ OverviewFails /\ UNCHANGED <<detVars, nedVars, fitsVars, poolVars, sampleVars, queryVars, latexVars, codecVars, mainVars>>
    \/ OverviewSleep /\ UNCHANGED <<detVars, nedVars, fitsVars, poolVars, sampleVars, queryVars, latexVars, codecVars, mainVars>>
    \/ RecordBuilt /\ UNCHANGED <<detVars, nedVars, fitsVars, poolVars, sampleVars, queryVars, latexVars, codecVars, mainVars>>
    \/ RecordRaises /\ UNCHANGED <<detVars, nedVars, fitsVars, poolVars, sampleVars, queryVars, latexVars, codecVars, mainVars>>
    \/ EnrichCheckpoint /\ UNCHANGED <<detVars, nedVars, fitsVars, poolVars, sampleVars, queryVars, latexVars, codecVars, mainVars>>
    \/ BibExport /\ UNCHANGED <<detVars, nedVars, fitsVars, poolVars, sampleVars, queryVars, latexVars, codecVars, mainVars>>
    \/ BibNotPulled /\ UNCHANGED <<detVars, nedVars, fitsVars, poolVars, sampleVars, queryVars, latexVars, codecVars, mainVars>>

SpecEnrich == InitEnrich /\ [][EnrichNext]_vars

InitLatex ==
    LatexInit /\ DetOff /\ NedOff /\ FitsOff /\ PoolOff /\ SampleOff /\ QueryOff /\ EnrichOff
        /\ CodecOff /\ MainOff

LatexNext ==
    \/ ToLatexFilters /\ UNCHANGED <<detVars, nedVars, fitsVars, poolVars, sampleVars, queryVars, enrichVars, codecVars, mainVars>>
    \/ ToLatexRaises /\ UNCHANGED <<detVars, nedVars, fitsVars, poolVars, sampleVars, queryVars, enrichVars, codecVars, mainVars>>

SpecLatex == InitLatex /\ [][LatexNext]_vars

InitCodec ==
    CodecInit /\ DetOff /\ NedOff /\ FitsOff /\ PoolOff /\ SampleOff /\ QueryOff /\ EnrichOff
        /\ LatexOff /\ MainOff

CodecNext ==
    \/ Sn2Fits /\ UNCHANGED <<detVars, nedVars, fitsVars, poolVars, sampleVars, queryVars, enrichVars, latexVars, mainVars>>
    \/ Fits2Sn /\ UNCHANGED <<detVars, nedVars, fitsVars, poolVars, sampleVars, queryVars, enrichVars, latexVars, mainVars>>

SpecCodec == InitCodec /\ [][CodecNext]_vars

InitMain ==
    MainInit /\ DetOff /\ NedOff /\ FitsOff /\ PoolOff /\ SampleOff /\ QueryOff /\ EnrichOff
        /\ LatexOff /\ CodecOff

MainNext ==
    \/ MainCompile /\ UNCHANGED <<detVars, nedVars, fitsVars, poolVars, sampleVars, queryVars, enrichVars, latexVars, codecVars>>
    \/ MainCompileRaises /\ UNCHANGED <<detVars, nedVars, fitsVars, poolVars, sampleVars, queryVars, enrichVars, latexVars, codecVars>>
    \/ MainReadCache /\ UNCHANGED <<detVars, nedVars, fitsVars, poolVars, sampleVars, queryVars, enrichVars, latexVars, codecVars>>
    \/ MainFinalSample /\ UNCHANGED <<detVars, nedVars, fitsVars, poolVars, sampleVars, queryVars, enrichVars, latexVars, codecVars>>
    \/ MainSummary /\ UNCHANGED <<detVars, nedVars, fitsVars, poolVars, sampleVars, queryVars, enrichVars, latexVars, codecVars>>
    \/ MainPlot /\ UNCHANGED <<detVars, nedVars, fitsVars, poolVars, sampleVars, queryVars, enrichVars, latexVars, codecVars>>
    \/ MainStats /\ UNCHANGED <<detVars, nedVars, fitsVars, poolVars, sampleVars, queryVars, enrichVars, latexVars, codecVars>>

SpecMain == InitMain /\ [][MainNext]_vars

-----------------------------------------------------------------------------
(* C1 *)

\* The (supernova, band) pair examined last has a row in `detections`
LastFlagged ==
    \E i \in DOMAIN detections :
        detections[i].Name = lc.sn /\ detections[i].Band = lc.band

\* Number of epochs of the light curve with sigma_above = flux/err > k,
\* counted on the ratios themselves
CountAbove(rows, k) ==
    Cardinality({i \in DOMAIN rows :
        rows[i].err > 0 /\ rows[i].flux > k * rows[i].err})

\* C1: a (supernova, band) whose light curve loads is flagged if and only if
\* at least 3 epochs have sigma_above > 3 or at least one has sigma_above > 5.
C1_DetectionRule ==
    lc.found =>
        (LastFlagged <=> (CountAbove(lc.rows, 3) >= 3 \/ CountAbove(lc.rows, 5) >= 1))

\* C1 witness: exactly 3 epochs above 3 sigma, none above 5, flagged
C1_Witness ==
    /\ lc.found
    /\ CountAbove(lc.rows, 3) = 3
    /\ CountAbove(lc.rows, 5) = 0
    /\ LastFlagged

-----------------------------------------------------------------------------
(* C2 - C5: scrape_ned.main *)

\* A process of the enrichment tool has been started (and may have ended)
InRun == ned_pc \in {"loop", "done", "aborted", "interrupted"}

\* Names of the per-supernova sample, in sample order, that satisfy keep
SampleNames(keep) ==
    SelectSeqIdx(IndexOf(sn_info), {r \in DOMAIN sn_info : sn_info[r].Name \in keep}, 1)

AllNames == {sn_info[r].Name : r \in DOMAIN sn_info}

NamesIn(rows) == {rows[r].name : r \in DOMAIN rows}

\* C2: the operator's choice fixes the work list.  Overwrite (or no previous
\* file, then without a prompt): empty result set, the whole sample is the
\* work list.  Continue: previous results loaded, the work list is the sample
\* supernovae whose name is not in them.  Keep (any other answer): previous
\* results loaded, empty work list, results file never rewritten.
C2_StartupChoice ==
    InRun =>
        /\ prompted = disk0.exists
        /\ ~disk0.exists => prev = "o"
        /\ prev = "o" => loaded = <<>> /\ sne = SampleNames(AllNames)
        /\ prev = "c" => /\ loaded = disk0.rows
                         /\ sne = SampleNames(AllNames \ NamesIn(disk0.rows))
        /\ prev \notin {"o", "c"} => /\ loaded = disk0.rows
                                     /\ sne = <<>>
                                     /\ Processed = <<>>
                                     /\ disk = disk0
        /\ ned_pc = "done" => Processed = sne

\* C2 witness: a completed continue run that had part of the sample to do
C2_Witness ==
    /\ ned_pc = "done"
    /\ prev = "c"
    /\ prompted
    /\ Len(sne) > 0
    /\ Len(sne) < Len(sn_info)

\* C3: the work list is processed in consecutive blocks of BLOCK_SIZE (the
\* last one possibly shorter), every supernova once and in order; once a
\* block has finished the file holds the rows loaded at startup plus the rows
\* of all finished blocks, and never a row of the unfinished block.
C3_BlockCheckpoint ==
    InRun =>
        LET finished == Min2(blk, Len(sne)) IN
        /\ blk % BLOCK_SIZE = 0
        /\ Len(block) <= BLOCK_SIZE
        /\ blk + Len(block) <= Len(sne) \/ block = <<>>
        /\ Len(ned) = Len(loaded) + finished
        /\ \A i \in 1..Len(loaded) : ned[i] = loaded[i]
        /\ \A i \in 1..finished : ned[Len(loaded) + i].name = sne[i]
        /\ \A i \in 1..Len(block) : block[i].name = sne[blk + i]
        /\ disk = IF blk = 0 THEN disk0 ELSE [exists |-> TRUE, rows |-> ned]
        /\ ned_pc = "done" => finished = Len(sne) /\ block = <<>>

\* C3 witness: a run of more than one block has completed
C3_Witness ==
    /\ ned_pc = "done"
    /\ Len(sne) > BLOCK_SIZE
    /\ Len(sne) % BLOCK_SIZE # 0
    /\ blk > BLOCK_SIZE
    /\ disk.rows = ned

UniqueNames(rows) ==
    \A i, j \in DOMAIN rows : rows[i].name = rows[j].name => i = j

\* C5: after any sequence of runs the results table, in memory and on disk,
\* holds at most one row per supernova name.
C5_OneRowPerName == UniqueNames(ned) /\ UniqueNames(disk.rows)

\* The per-supernova sample repeats a name (two band rows of one supernova
\* with different coordinate strings)
SampleRepeatsName ==
    \E i, j \in DOMAIN sn_info : i # j /\ sn_info[i].Name = sn_info[j].Name

\* C5 witness: the sample repeats a name, a block was checkpointed and the
\* run then ended at the get_sn call for the repeated name
C5_Witness ==
    /\ SampleRepeatsName
    /\ ned_pc = "aborted"
    /\ disk.exists
    /\ Len(Processed) < Len(sne)
    /\ Len(LocRows(sn_info, sne[Len(Processed) + 1])) > 1

-----------------------------------------------------------------------------
(* compile_fits: C6 - C8 *)

\* Input positions of the files import_fits returns a row for
Yielding == {i \in DOMAIN fits_files : TryOutcome(fits_files[i].kind) = "row"}

\* C6: the rows of the compiled inventory appear in the order of the input
\* file list, whatever the order in which the workers finish their chunks.
C6_InputOrderPreserved ==
    pool_pc = "assembled" =>
        \A p \in DOMAIN inventory : \A q \in DOMAIN inventory :
            p < q => inventory[p].File < inventory[q].File

\* The inventory of more than one chunk was assembled although the second
\* chunk came back before the first
C6_Witness ==
    /\ pool_pc = "assembled"
    /\ Len(inventory) > CHUNKSIZE
    /\ arrived[2].seq < arrived[1].seq

\* C7 as stated: row i of the compiled inventory corresponds to input file i,
\* also when files without a result have been filtered out.
C7_RowIsInputFile ==
    pool_pc = "assembled" =>
        \A i \in DOMAIN inventory : inventory[i].File = fits_files[i].id

\* C7 amended: entry i of the list gathered from the pool is the result of
\* input file i; after the entries without a result are removed, row j of
\* the inventory is the j-th input file that gave a result, so row i is input
\* file i only up to the first file without a result.
C7_RowIsJthResult ==
    /\ Len(stats) <= Len(fits_files)
    /\ \A i \in DOMAIN stats : stats[i] = import_fits(fits_files[i])
    /\ pool_pc = "assembled" =>
        /\ Len(inventory) = Cardinality(Yielding)
        /\ \A j \in DOMAIN inventory :
            /\ inventory[j].File \in Yielding
            /\ Cardinality({i \in Yielding : i <= inventory[j].File}) = j
            /\ (\A k \in 1..j : k \in Yielding) => inventory[j].File = j

\* An inventory was assembled after a file without a result was filtered
\* out, and a row no longer sits at the position of its input file
C7_Witness ==
    /\ pool_pc = "assembled"
    /\ \E i \in DOMAIN stats : stats[i].none
    /\ \E j \in DOMAIN inventory : inventory[j].File # j

\* C8 as stated: a failure on one file, a file that cannot be opened
\* included, gives no result for that file only: the pool is not aborted and
\* the inventory is assembled from the results of the other files.
C8_FailureContained ==
    /\ pool_pc # "aborted"
    /\ pool_pc = "assembled" =>
         {inventory[j].File : j \in DOMAIN inventory} =
             {i \in DOMAIN fits_files : fits_files[i].kind = "ok"}

-----------------------------------------------------------------------------
(* import_fits: C9, C10 *)

EpochTimes == Range(fin.tmeans)

\* C9 as stated: for every order in which the epochs are stored, the row has
\* the number of epochs strictly before and strictly after discovery, the
\* whole days from the earliest epoch to discovery and from discovery to the
\* latest epoch.
C9_EpochOffsets ==
    fits_pc = "imported" =>
        /\ fout.row.Pre = Cardinality({i \in DOMAIN fin.tmeans : fin.tmeans[i] < fin.disc})
        /\ fout.row.Post = Cardinality({i \in DOMAIN fin.tmeans : fin.tmeans[i] > fin.disc})
        /\ fout.row.First = IntDays(fin.disc - MinOf(EpochTimes))
        /\ fout.row.Last = IntDays(MaxOf(EpochTimes) - fin.disc)

\* C10 as stated: Next Epoch is the smallest offset among the epochs strictly
\* after discovery, and not-a-number exactly when there is none; an epoch on
\* the discovery date itself does not count.
C10_NextEpoch ==
    fits_pc = "imported" =>
        LET after == {t - fin.disc : t \in {x \in EpochTimes : x > fin.disc}} IN
        fout.row.Next = IF after = {} THEN NaN ELSE Num(RoundDays(MinOf(after)))

-----------------------------------------------------------------------------
(* The final sample and its compression: C11 - C14 *)

\* The rows of a table are the rows of the inventory that `keep` selects,
\* each once and unaltered
ExactlyRows(t, keep) ==
    /\ Range(t) = {smp_fits_info[i] : i \in {j \in DOMAIN smp_fits_info : keep[j]}}
    /\ Len(t) = Cardinality({j \in DOMAIN smp_fits_info : keep[j]})

C13_OneRowPerName ==
    smp_pc = "compressed" =>
        /\ {smp_sn_info[i].name : i \in DOMAIN smp_sn_info} =
               {final_sample[i].Name : i \in DOMAIN final_sample}
        /\ \A i \in DOMAIN smp_sn_info : \A j \in DOMAIN smp_sn_info :
               smp_sn_info[i].name = smp_sn_info[j].name => i = j

\* A final sample with two band rows of one supernova was compressed
C13_Witness ==
    /\ smp_pc = "compressed"
    /\ \E i \in DOMAIN final_sample : \E j \in DOMAIN final_sample :
         i # j /\ final_sample[i].Name = final_sample[j].Name
    /\ Len(smp_sn_info) < Len(final_sample)

\* The band rows of the final sample of the supernova of a compressed row
BandRows(row) == {r \in Range(final_sample) : r.Name = row.name}

\* C14 as stated: in the compressed row of a supernova the three epoch counts
\* are the sums over its band rows, delta_t_first and delta_t_last the
\* largest and delta_t_next the smallest of the offsets of its band rows.
C14_Aggregates ==
    smp_pc = "compressed" =>
        \A k \in DOMAIN smp_sn_info :
            LET row == smp_sn_info[k]
                B == BandRows(row) IN
            /\ row.epochs_total = SumOf([r \in B |-> r.Total], B, 0)
            /\ row.epochs_pre = SumOf([r \in B |-> r.Pre], B, 0)
            /\ row.epochs_post = SumOf([r \in B |-> r.Post], B, 0)
            /\ ~row.delta_t_first.nan /\ ~row.delta_t_last.nan /\ ~row.delta_t_next.nan
            /\ row.delta_t_first.n = MaxOf({r.First.n : r \in B})
            /\ row.delta_t_last.n = MaxOf({r.Last.n : r \in B})
            /\ row.delta_t_next.n = MinOf({r.Next.n : r \in B})

-----------------------------------------------------------------------------
(* query_loc: C15 *)

\* The candidates of the query whose redshift is within 10% of z
Within10(z) ==
    {c \in Range(q_results) :
        /\ ~c.masked
        /\ 10 * c.z < 11 * z.v
        /\ 10 * c.z > 9 * z.v}

Nearest(C) == CHOOSE c \in C : \A d \in C : c.sep <= d.sep

\* C15: with a known catalog redshift z, query_loc returns the nearest of the
\* candidates whose redshift is within 10% of z, even if another candidate is
\* nearer; with no such candidate, or z absent, NaN or zero, it returns the
\* nearest candidate of all, with or without a redshift.
C15_SimilarRedshiftFirst ==
    q_pc = "returned" =>
        q_table = IF q_z.kind = "num" /\ q_z.v # 0 /\ Within10(q_z) # {}
                  THEN Nearest(Within10(q_z))
                  ELSE Nearest(Range(q_results))

\* Candidates with redshifts 0.05, 0.12, 0.20 in order of separation and a
\* catalog redshift of 0.11: the one with 0.12 was returned
C15_Witness ==
    /\ q_pc = "returned"
    /\ q_z = NumZ(110)
    /\ Len(q_results) = 3
    /\ \E a \in Range(q_results) : \E b \in Range(q_results) : \E c \in Range(q_results) :
         /\ a.sep < b.sep /\ b.sep < c.sep
         /\ ~a.masked /\ a.z = 50
         /\ ~b.masked /\ b.z = 120
         /\ ~c.masked /\ c.z = 200
         /\ q_table = b

-----------------------------------------------------------------------------
(* The network requests of a run: C16, C18, C19 *)

\* The run was ended by an exception of get_sn
EnrichAborted == en_pc \in {"query_failed", "fetch_failed", "record_failed"}

\* C16 as stated: every region query of the per-supernova enrichment asks
\* for the objects within QUERY_RADIUS = 5 arcminutes of the position.
C16_QueryRadius == en_radius \in {0, QUERY_RADIUS}

C19_FailureContained ==
    /\ ~EnrichAborted
    /\ en_pc = "end" => Len(en_file) = en_n

-----------------------------------------------------------------------------
(* The filter of to_latex: C17 *)

\* Where to_latex gets as far as the notes, every row is classified: left
\* out if its redshift is >= 0.5 or unknown or its offset >= 100 kpc or
\* unknown, kept otherwise, with the note exactly if its offset is > 30 kpc
LatexClassified ==
    tl_pc = "filtered" =>
        \A i \in DOMAIN tl_ned :
            LET r == tl_ned[i]
                out == r.z.kind = "nan" \/ r.z.v >= 500
                          \/ r.offset.kind = "nan" \/ r.offset.v >= 100
                rows == {j \in DOMAIN tl_out : tl_out[j].name = r.name} IN
            IF out THEN rows = {}
            ELSE /\ Cardinality(rows) = 1
                 /\ \A j \in rows :
                      /\ tl_out[j].z = r.z /\ tl_out[j].offset = r.offset
                      /\ (tl_out[j].notes = "large host offset") <=> (r.offset.v > 30)

\* C17 as stated: the filter at the start of to_latex classifies every
\* enrichment row by its redshift and its offset.
C17_FilterClassifies ==
    /\ tl_pc # "raised"
    /\ LatexClassified

-----------------------------------------------------------------------------
(* sn2fits and fits2sn: C20 *)

Has(s, ch) == \E i \in DOMAIN s : s[i] = ch

\* The name with every ' ' turned into ':'
ColonForm(s) == Replace(s, " ", ":")

\* The names the file's name still determines: no '_', not both ':' and
\* ' ', and, for a name with ' ', no catalog entry that is its colon form
Recoverable(sn, osc) ==
    /\ ~Has(sn, "_")
    /\ ~(Has(sn, ":") /\ Has(sn, " "))
    /\ Has(sn, " ") => ColonForm(sn) \notin osc

\* C20 as stated: for every catalog name with a colon or a space, names
\* with both, with a hyphen or an underscore, and names whose colon form and
\* space form are both entries included, fits2sn(sn2fits(name, band)) is the
\* name.
C20_RoundTrip ==
    (cd_pc = "decoded" /\ (Has(cd_sn, ":") \/ Has(cd_sn, " "))) => cd_out = cd_sn

\* C20, amended: for a catalog name with a colon or a space,
\* fits2sn(sn2fits(name, band)) is the name exactly if the name holds no
\* underscore, does not hold both a colon and a space and, where it holds a
\* space, its colon form is not a catalog entry; hyphens do no harm.
C20_RoundTripRecoverable ==
    (cd_pc = "decoded" /\ (Has(cd_sn, ":") \/ Has(cd_sn, " "))) =>
        (cd_out = cd_sn <=> Recoverable(cd_sn, cd_osc))

\* A name with a space and a hyphen, read back through the space form
C20_Witness ==
    /\ cd_pc = "decoded"
    /\ Has(cd_sn, " ") /\ Has(cd_sn, "-")
    /\ ColonForm(cd_sn) \notin cd_osc
    /\ cd_out = cd_sn

-----------------------------------------------------------------------------
(* get_fits_info.main: C21 *)

MainEnded == mn_pc \in {"done", "raised"}

\* The inventory was compiled in this run and the cache file rewritten
Recompiled ==
    /\ mn_opened = DOMAIN mn_dir
    /\ mn_fits_info = InventoryOf(mn_dir, TRUE)
    /\ mn_cache = [exists |-> TRUE, rows |-> InventoryOf(mn_dir, FALSE)]

\* The inventory is the cached one, no image file was opened and the cache
\* file is as it was
ReadFromCache ==
    /\ mn_opened = {}
    /\ mn_cache = mn_cache0
    /\ mn_fits_info = mn_cache0.rows

\* The final sample, the summary and the statistics report of the inventory
ProducedFrom(fi) ==
    /\ mn_out.sample = get_final_sample(fi)
    /\ mn_out.sn_info = gfi_compress_duplicates(get_final_sample(fi))
    /\ mn_stats = QuickStats(fi, mn_out.sample, mn_out.sn_info)
    /\ {"sample_fits_info.csv", "sn_info.csv", "quick_stats.txt"} \subseteq mn_out.files

\* A run of main without --overwrite and with a cache never opens an image
\* file and never changes the cache file
MainCachedRunFrame ==
    (~mn_overwrite /\ mn_cache0.exists) =>
        /\ mn_opened = {} /\ mn_cache = mn_cache0
        /\ mn_pc # "raised"
        /\ mn_pc \notin {"start"} => ReadFromCache

\* A run of main that reaches its last line has recompiled exactly if
\* --overwrite was set or there was no cache, has read the cache otherwise,
\* and has produced the three outputs from the inventory
MainCompletedRun ==
    mn_pc = "done" =>
        /\ IF mn_overwrite \/ ~mn_cache0.exists THEN Recompiled ELSE ReadFromCache
        /\ (mn_overwrite \/ ~mn_cache0.exists) \/ ~Recompiled
        /\ ProducedFrom(mn_fits_info)

\* C21 as stated: the inventory is recompiled and the cache file rewritten
\* if and only if --overwrite is set or there is no cache; otherwise it is
\* read from the cache, no image file is opened and the cache file is left
\* as it was; in both cases the final sample, the summary and the statistics
\* report are produced from the inventory.
C21_CacheOrRecompile ==
    MainEnded =>
        /\ Recompiled <=> (mn_overwrite \/ ~mn_cache0.exists)
        /\ ~(mn_overwrite \/ ~mn_cache0.exists) => ReadFromCache
        /\ ProducedFrom(mn_fits_info)

-----------------------------------------------------------------------------
(* detections.main with missing light curves: C22 *)

\* The place of a (supernova, band) in the order of the two loops
PairOf(sn, band) == RankIn(Catalog, sn) * Len(Bands) + RankIn(Bands, band) - (Len(Bands) + 1)

\* The rows of a table are of different (supernova, band), in loop order
OneRowPerPair(rows) ==
    \A a \in DOMAIN rows : \A b \in DOMAIN rows :
        a < b => PairOf(rows[a].Name, rows[a].Band) < PairOf(rows[b].Name, rows[b].Band)

\* C22: a missing light curve skips only its own (supernova, band): no row is
\* recorded for it, every pair is still examined in catalog order up to the
\* end of the catalog, and the table written has at most one row per pair,
\* the row of the pair flagged last holding the greatest sigma_above of its
\* light curve.
C22_MissingSkipsOneBand ==
    /\ Len(examined) = det_i
    /\ \A k \in DOMAIN examined :
         /\ examined[k].sn = PairSn(k - 1) /\ examined[k].band = PairBand(k - 1)
         /\ ~examined[k].found =>
              \A r \in DOMAIN detections :
                  ~(detections[r].Name = examined[k].sn /\ detections[r].Band = examined[k].band)
    /\ OneRowPerPair(detections)
    /\ (lc.found /\ LastFlagged) =>
         LET row == detections[Len(detections)] IN
         /\ row.Name = lc.sn /\ row.Band = lc.band
         /\ \E i \in DOMAIN lc.rows : lc.rows[i] = row.MaxSigma /\ ~SigmaIsNaN(lc.rows[i])
         /\ \A i \in DOMAIN lc.rows :
              SigmaIsNaN(lc.rows[i]) \/ ~SigmaLess(row.MaxSigma, lc.rows[i])
    /\ det_pc = "written" =>
         /\ det_i = NumPairs
         /\ det_out.exists /\ det_out.rows = detections

\* C22 witness: the table is written after a run in which the first light
\* curve was missing, with a row for the other band of that supernova and a
\* row for a later supernova
C22_Witness ==
    /\ det_pc = "written"
    /\ ~examined[1].found
    /\ \E r \in DOMAIN det_out.rows :
         det_out.rows[r].Name = examined[1].sn /\ det_out.rows[r].Band # examined[1].band
    /\ \E r \in DOMAIN det_out.rows : det_out.rows[r].Name # examined[1].sn

=============================================================================
